---- MODULE Spec2Model ----
(***************************************************************************)
(* Position ledger of the IAGood trading bot (PositionTracker in           *)
(* v3/core/position-tracker.ts, stored in the positions and position_flags *)
(* tables of db/schema.sql).                                               *)
(*                                                                         *)
(* Numbers.  The DECIMAL(18,9) columns hold multiples of 10^-9.  The model *)
(* counts every stored quantity in storage units of 1/Scale, so a column   *)
(* value is an integer.  The inputs of recordBuy and recordSell are        *)
(* on-chain token amounts (at most 9 decimals, lib/config/constants.ts),   *)
(* so they are integers in the same unit.  The code computes on them in    *)
(* JavaScript doubles (parseFloat of the column, then + - * /), which hold *)
(* 53 significant bits; the model's doubles hold FloatBits significant     *)
(* bits of a count of storage units, so sums and differences are exact     *)
(* while the counts stay below 2^FloatBits and lose their low bits above.  *)
(* The division that yields avg_entry_price and the product that yields    *)
(* the cost basis are modelled with their rounding on storage.             *)
(***************************************************************************)
EXTENDS Integers, Sequences, FiniteSets, TLC

\* ------------------------------------------------------------------ bounds
Scale == 2              \* storage units per whole token (10^9 in the schema)
MaxTotal == 3           \* cap on the amount bought over the whole run
MaxFlags == 1           \* cap on the number of persisted flags
MaxClock == 2           \* cap on the wall clock
MaxLargeFlags == 2      \* cap on the flags in the runs on large positions
FloatBits == 24         \* significant bits of a double (53 in JavaScript)

\* ------------------------------------------------------- program constants
NULL == 0
OversizedThreshold == 50000

Wallets == {1}
Tokens == {"SOL"}
TradeIds == {7}
Amounts == {0, 1, 2}            \* amount of a sell
BuyAmounts == {0, 1, 2, 3}      \* amount of a buy
Costs == {0, 2}                 \* cost of a buy
Proceeds == {-1, 3}             \* proceeds of a sell
Times == 1 .. MaxClock          \* readings of new Date()
Procs == {1, 2}                 \* connections running calls concurrently
ConcAmounts == {1}              \* amounts of the concurrent calls
ConcCosts == {2, 300000}        \* costs of the concurrent buys
ConcProceeds == {3}
LargeAmounts == {1, 2}           \* amounts of the calls on large positions
LargeCosts == {75000, 75001}     \* costs that put 2 units at the threshold
LargeProceeds == {3}
FifoAmounts == {1, 2}            \* amounts of the calls compared with the lots
FifoCosts == {2, 8}              \* two unit prices far apart
FifoProceeds == {3}
FloatBuyAmounts == {2 ^ FloatBits, 2 ^ FloatBits + 2}   \* doubles around 2^FloatBits
FloatSellAmounts == {1, 2 ^ FloatBits - 1, 2 ^ FloatBits, 2 ^ FloatBits + 2}
FloatCosts == {2}
FloatProceeds == {3}

\* positions, flags: the committed rows of the two tables (a row's id is its
\*   index); clock: the latest reading of new Date(); last: the record of
\*   the most recent finished call; txs: the open transaction of each
\*   connection (a call that has run its SELECT and not yet its write)
VARIABLES positions, flags, console, lots, clock, last, txs
\* console: what flagIssue has written to the diagnostic channel, in order
\* lots:    the buy lots of a reference first-in-first-out ledger (kept only
\*          in the runs that compare the cost basis with it)

vars == <<positions, flags, console, lots, clock, last, txs>>

\* ------------------------------------------------------------ arithmetic
\* n / d rounded to the nearest integer, halves away from zero: what storing
\* a quotient into a DECIMAL(18,9) column does (d > 0).
RoundDiv(n, d) ==
    IF n >= 0 THEN (2 * n + d) \div (2 * d)
              ELSE -((2 * (-n) + d) \div (2 * d))

\* x rounded to the nearest number of FloatBits significant bits, ties to
\* the even mantissa: the result of a double operation whose exact value
\* is x
\* the least integer that needs more than FloatBits bits
FloatLimit == 2 ^ FloatBits

RECURSIVE UlpFrom(_, _)
UlpFrom(a, q) == IF a < FloatLimit * q THEN q ELSE UlpFrom(a, 2 * q)

Double(x) ==
    IF -FloatLimit < x /\ x < FloatLimit
    THEN x
    ELSE LET a == IF x >= 0 THEN x ELSE -x
             q == UlpFrom(a, 1)
             m == a \div q
             r == a % q
             up == 2 * r > q \/ (2 * r = q /\ m % 2 = 1)
             rounded == (IF up THEN m + 1 ELSE m) * q
         IN  IF x >= 0 THEN rounded ELSE -rounded

\* parseFloat of a column value
ParseFloat(n) == Double(n)

\* cost / amount, as stored in avg_entry_price
AvgPrice(cost, amount) == RoundDiv(cost * Scale, amount)

\* faulty variant: the cost basis ignores the amount sold
CostBasisPerUnit(avgEntryPrice, amount) == avgEntryPrice

\* avgEntryPrice * amount, in units of 1/Scale^2 (the double, not rounded
\* to the column)
CostBasis(avgEntryPrice, amount) == Double(ParseFloat(avgEntryPrice) * amount)

\* proceeds - costBasis, in units of 1/Scale^2
RealizedPnl(proceeds, costBasis) == Double(proceeds * Scale - costBasis)

\* ------------------------------------------------------------- the tables
Ids(pos) == 1 .. Len(pos)

RECURSIVE TotalBought(_)
TotalBought(pos) ==
    IF pos = <<>> THEN 0
    ELSE Head(pos).total_entry_amount + TotalBought(Tail(pos))

\* faulty variant: the status filter is missing
IsOpenRowAnyStatus(row, w, t) ==
    /\ row.wallet_id = w
    /\ row.token = t

\* faulty variant: the filter forgets PARTIAL
IsOpenRowOnlyOpen(row, w, t) ==
    /\ row.wallet_id = w
    /\ row.token = t
    /\ row.status = "OPEN"

\* WHERE wallet_id = $1 AND token = $2 AND status IN ('OPEN', 'PARTIAL')
IsOpenRow(row, w, t) ==
    /\ row.wallet_id = w
    /\ row.token = t
    /\ row.status \in {"OPEN", "PARTIAL"}

OpenIds(pos, w, t) == {i \in Ids(pos) : IsOpenRow(pos[i], w, t)}

\* ... ORDER BY first_entry_at ASC LIMIT 1: the ids the SELECT may return
\* (more than one only when first_entry_at ties)
SelectOpen(pos, w, t) ==
    {i \in OpenIds(pos, w, t) :
        \A j \in OpenIds(pos, w, t) : pos[i].first_entry_at <= pos[j].first_entry_at}

\* the possible values of res.rows: no row, or the one row selected
SelectRows(pos, w, t) ==
    IF OpenIds(pos, w, t) = {} THEN {<<>>}
    ELSE {<<pos[i]>> : i \in SelectOpen(pos, w, t)}

\* UNIQUE(wallet_id, token, status)
UniqueOk(pos) ==
    \A i, j \in Ids(pos) :
        (/\ pos[i].wallet_id = pos[j].wallet_id
         /\ pos[i].token = pos[j].token
         /\ pos[i].status = pos[j].status) => i = j

\* faulty variant: the average entry price is the cost, not cost / amount
NewPositionUnitPrice(id, w, t, amount, cost, tradeId, now) ==
    [id |-> id, wallet_id |-> w, token |-> t, status |-> "OPEN",
     entry_trade_id |-> tradeId,
     total_entry_amount |-> amount, total_entry_cost |-> cost,
     avg_entry_price |-> cost * Scale,
     current_amount |-> amount,
     total_exit_amount |-> 0, total_exit_proceeds |-> 0, realized_pnl |-> 0,
     first_entry_at |-> now, last_exit_at |-> NULL, closed_at |-> NULL]

\* the row the INSERT of recordBuy creates
NewPosition(id, w, t, amount, cost, tradeId, now) ==
    [id |-> id, wallet_id |-> w, token |-> t, status |-> "OPEN",
     entry_trade_id |-> tradeId,
     total_entry_amount |-> amount, total_entry_cost |-> cost,
     avg_entry_price |-> AvgPrice(cost, amount),
     current_amount |-> amount,
     total_exit_amount |-> 0, total_exit_proceeds |-> 0, realized_pnl |-> 0,
     first_entry_at |-> now, last_exit_at |-> NULL, closed_at |-> NULL]

\* faulty variant: current_amount is not part of the SET list
BuyUpdateKeepsCurrent(row, existing, amount, cost) ==
    [row EXCEPT
        !.total_entry_amount = existing.total_entry_amount + amount,
        !.total_entry_cost = existing.total_entry_cost + cost,
        !.avg_entry_price = AvgPrice(existing.total_entry_cost + cost,
                                     existing.total_entry_amount + amount)]

\* faulty variant: the buy also resets status to OPEN
BuyUpdateReopens(row, existing, amount, cost) ==
    [row EXCEPT
        !.total_entry_amount = existing.total_entry_amount + amount,
        !.total_entry_cost = existing.total_entry_cost + cost,
        !.avg_entry_price = AvgPrice(existing.total_entry_cost + cost,
                                     existing.total_entry_amount + amount),
        !.current_amount = existing.current_amount + amount,
        !.status = "OPEN"]

\* faulty variant: the buy also clears last_exit_at
BuyUpdateClearsExitTime(row, existing, amount, cost) ==
    [row EXCEPT
        !.total_entry_amount = existing.total_entry_amount + amount,
        !.total_entry_cost = existing.total_entry_cost + cost,
        !.avg_entry_price = AvgPrice(existing.total_entry_cost + cost,
                                     existing.total_entry_amount + amount),
        !.current_amount = existing.current_amount + amount,
        !.last_exit_at = NULL]

\* faulty variant: avg_entry_price is not part of the SET list
BuyUpdateKeepsAvg(row, existing, amount, cost) ==
    [row EXCEPT
        !.total_entry_amount = existing.total_entry_amount + amount,
        !.total_entry_cost = existing.total_entry_cost + cost,
        !.current_amount = existing.current_amount + amount]

\* faulty variant: the buy rebases the entry amount on what is left of the
\* position, as a reconciling entry would
BuyUpdateRebases(row, existing, amount, cost) ==
    [row EXCEPT
        !.total_entry_amount = existing.current_amount + amount,
        !.total_entry_cost = existing.total_entry_cost + cost,
        !.avg_entry_price = AvgPrice(existing.total_entry_cost + cost,
                                     existing.total_entry_amount + amount),
        !.current_amount = existing.current_amount + amount]

\* the UPDATE of recordBuy: row is the stored row WHERE id = existing.id,
\* existing the row as the call's SELECT read it; the four columns are SET
\* to values computed from existing, the others are left as stored
BuyUpdate(row, existing, amount, cost) ==
    LET newTotalEntryAmount == Double(ParseFloat(existing.total_entry_amount) + amount)
        newTotalEntryCost == Double(ParseFloat(existing.total_entry_cost) + cost)
        newCurrentAmount == Double(ParseFloat(existing.current_amount) + amount)
    IN  [row EXCEPT
            !.total_entry_amount = newTotalEntryAmount,
            !.total_entry_cost = newTotalEntryCost,
            !.avg_entry_price = AvgPrice(newTotalEntryCost, newTotalEntryAmount),
            !.current_amount = newCurrentAmount]

\* the three-way status decision of recordSell
NewStatus(newCurrentAmount, newTotalExitAmount) ==
    IF newCurrentAmount = 0 THEN "CLOSED"
    ELSE IF newTotalExitAmount > 0 THEN "PARTIAL"
    ELSE "OPEN"

\* faulty variant: every sell stamps closed_at
ClosedAtAlways(newCurrentAmount, now) == now

\* closedAt: now when the sell empties the position, else null
ClosedAt(newCurrentAmount, now) ==
    IF newCurrentAmount = 0 THEN now ELSE NULL

\* faulty variant: the column takes this sell's P&L instead of adding it
NewRealizedPnlReplaces(oldPnl, realizedPnl) == RoundDiv(realizedPnl, Scale)

\* realized_pnl column after the sell: the stored value plus this sell's
\* P&L, rounded to the column's 9 digits
NewRealizedPnl(oldPnl, realizedPnl) ==
    RoundDiv(Double(ParseFloat(oldPnl) * Scale + realizedPnl), Scale)

\* faulty variant: status is not part of the SET list
SellUpdateKeepsStatus(row, position, amount, proceeds, now) ==
    [row EXCEPT
        !.current_amount = position.current_amount - amount,
        !.total_exit_amount = position.total_exit_amount + amount,
        !.total_exit_proceeds = position.total_exit_proceeds + proceeds,
        !.realized_pnl =
            NewRealizedPnl(position.realized_pnl,
                RealizedPnl(proceeds, CostBasis(position.avg_entry_price, amount))),
        !.last_exit_at = now,
        !.closed_at = ClosedAt(position.current_amount - amount, now)]

\* faulty variant: the sell also moves avg_entry_price to the sale price
SellUpdateReprices(row, position, amount, proceeds, now) ==
    [row EXCEPT
        !.avg_entry_price = AvgPrice(proceeds, amount),
        !.current_amount = position.current_amount - amount,
        !.total_exit_amount = position.total_exit_amount + amount,
        !.total_exit_proceeds = position.total_exit_proceeds + proceeds,
        !.realized_pnl =
            NewRealizedPnl(position.realized_pnl,
                RealizedPnl(proceeds, CostBasis(position.avg_entry_price, amount))),
        !.status = NewStatus(position.current_amount - amount,
                             position.total_exit_amount + amount),
        !.last_exit_at = now,
        !.closed_at = ClosedAt(position.current_amount - amount, now)]

\* the UPDATE of recordSell: row is the stored row WHERE id = position.id,
\* position the row as the call's SELECT read it
SellUpdate(row, position, amount, proceeds, now) ==
    LET newCurrentAmount == Double(ParseFloat(position.current_amount) - amount)
        newTotalExitAmount == Double(ParseFloat(position.total_exit_amount) + amount)
        newTotalExitProceeds == Double(ParseFloat(position.total_exit_proceeds) + proceeds)
    IN  [row EXCEPT
            !.current_amount = newCurrentAmount,
            !.total_exit_amount = newTotalExitAmount,
            !.total_exit_proceeds = newTotalExitProceeds,
            !.realized_pnl =
                NewRealizedPnl(position.realized_pnl,
                    RealizedPnl(proceeds, CostBasis(position.avg_entry_price, amount))),
            !.status = NewStatus(newCurrentAmount, newTotalExitAmount),
            !.last_exit_at = now,
            !.closed_at = ClosedAt(newCurrentAmount, now)]

\* ----------------------------------------------------------- validations
BuyAmountInvalid(amount) == amount <= 0

\* faulty variant: a cost of zero passes
BuyCostInvalidBelowZero(cost) == cost < 0

\* faulty variant: negative proceeds pass
SellProceedsInvalidNever(proceeds) == FALSE

BuyCostInvalid(cost) == cost <= 0
SellAmountInvalid(amount) == amount <= 0
SellProceedsInvalid(proceeds) == proceeds < 0

\* faulty variant: the comparison is off by one unit
SellExceedsOffByOne(amount, currentAmount) == amount > currentAmount + 1

\* amount > currentAmount
SellExceeds(amount, currentAmount) == amount > ParseFloat(currentAmount)

\* faulty variant: a value of exactly the threshold counts as oversized
OversizedFromThreshold(currentAmount, avgEntryPrice) ==
    currentAmount * avgEntryPrice >= OversizedThreshold * Scale * Scale

\* positionValue > 50000, with positionValue = currentAmount * avgEntryPrice
\* of the row as read before the sell (both sides in units of 1/Scale^2)
Oversized(currentAmount, avgEntryPrice) ==
    currentAmount * avgEntryPrice > OversizedThreshold * Scale * Scale

\* faulty variant: every sell at a loss counts as suspicious
SuspiciousPnlAnyLoss(realizedPnl, proceeds, costBasis) == realizedPnl < 0

\* realizedPnl < 0 && proceeds > costBasis * 1.1
SuspiciousPnl(realizedPnl, proceeds, costBasis) ==
    /\ realizedPnl < 0
    /\ proceeds * Scale * 10 > costBasis * 11

\* ------------------------------------------------------------------ flags
\* x || null
OrNull(x) == IF x = 0 THEN NULL ELSE x

\* the row INSERTed by flagIssue; resolved takes the column default
FlagRow(positionId, tradeId, walletId, flagType, severity, description) ==
    [position_id |-> OrNull(positionId), trade_id |-> OrNull(tradeId),
     wallet_id |-> walletId, flag_type |-> flagType, severity |-> severity,
     description |-> description, resolved |-> FALSE]

\* faulty variant: the new flag takes the place of the flags already logged
FlagIssueKeepsLatest(fl, row) == <<row>>

\* flagIssue runs its INSERT through the pool's query, not through the
\* transaction's client: the row is committed on its own, whatever becomes
\* of the calling transaction
FlagIssue(fl, row) == Append(fl, row)

\* severity.toUpperCase()
ToUpperCase(severity) ==
    CASE severity = "critical" -> "CRITICAL"
      [] severity = "warning" -> "WARNING"
      [] severity = "info" -> "INFO"

\* what the three console.error lines of flagIssue print for a flag
LogEntry(row) ==
    [severity |-> ToUpperCase(row.severity), flagType |-> row.flag_type,
     description |-> row.description, positionId |-> row.position_id,
     tradeId |-> row.trade_id, walletId |-> row.wallet_id]

\* flagIssue, once its INSERT has returned, writes the flag to the console
ConsoleError(log, row) == Append(log, LogEntry(row))

\* the console output of the flagIssue calls that persisted rows
Logged(rows) == [k \in DOMAIN rows |-> LogEntry(rows[k])]

\* faulty variant: the flag is raised as a warning
SellWithoutPositionFlagAsWarning(w, t, amount, tradeId) ==
    FlagRow(NULL, tradeId, w, "sell_without_position", "warning",
            <<amount, t, w, tradeId>>)

\* the description lists the values the message interpolates
SellWithoutPositionFlag(w, t, amount, tradeId) ==
    FlagRow(NULL, tradeId, w, "sell_without_position", "critical",
            <<amount, t, w, tradeId>>)

\* faulty variant: the flag carries no position id
SellExceedsPositionFlagUnlinked(position, w, t, amount, tradeId) ==
    FlagRow(NULL, tradeId, w, "sell_exceeds_position", "critical",
            <<amount, t, position.current_amount, position.id, tradeId>>)

SellExceedsPositionFlag(position, w, t, amount, tradeId) ==
    FlagRow(position.id, tradeId, w, "sell_exceeds_position", "critical",
            <<amount, t, position.current_amount, position.id, tradeId>>)

OversizedPositionFlag(position, w, t, tradeId) ==
    FlagRow(position.id, tradeId, w, "oversized_position", "warning",
            <<t, position.current_amount * position.avg_entry_price, w>>)

SuspiciousPnlFlag(position, w, realizedPnl, tradeId) ==
    FlagRow(position.id, tradeId, w, "suspicious_pnl", "warning",
            <<realizedPnl, position.id, tradeId>>)

\* the advisory flags a successful sell raises after its UPDATE
AdvisoryFlags(position, w, t, amount, proceeds, tradeId) ==
    LET costBasis == CostBasis(position.avg_entry_price, amount)
        realizedPnl == RealizedPnl(proceeds, costBasis)
    IN  (IF Oversized(position.current_amount, position.avg_entry_price)
            THEN <<OversizedPositionFlag(position, w, t, tradeId)>> ELSE <<>>)
        \o
        (IF SuspiciousPnl(realizedPnl, proceeds, costBasis)
            THEN <<SuspiciousPnlFlag(position, w, realizedPnl, tradeId)>> ELSE <<>>)

\* faulty variant: a buy that reaches storage raises a flag of its own
BuyFlagsEveryBuy(w, t, amount, cost, tradeId) ==
    <<FlagRow(NULL, tradeId, w, "balance_mismatch", "info", <<amount, t>>)>>

\* the flags a recordBuy raises inside its transaction: recordBuy has no
\* call of flagIssue
BuyFlags(w, t, amount, cost, tradeId) == <<>>

\* The INSERT of flagIssue runs on a pool connection of its own, and a flag
\* that names a position takes a key-share lock on that row for its foreign
\* key.  The lock waits for the end of a transaction whose UPDATE changed
\* status, a column of the table's unique key; the sell that awaits the flag
\* inside that transaction then never gets to its COMMIT.
AdvisoryBlocked(advisory, stored, written) ==
    /\ advisory # <<>>
    /\ written.status # stored.status

\* ------------------------------------------------- the record of one call
\* What the most recent call was given and what it gave back: outcome is
\* "ok" or the kind of the Error thrown, position_id the row returned (or
\* the row named in the error), realized_pnl and cost_basis the SellResult
\* figures in units of 1/Scale^2.
Call(op, w, t, amount, value, tradeId, outcome, positionId, realizedPnl, costBasis) ==
    [op |-> op, walletId |-> w, token |-> t, amount |-> amount, value |-> value,
     tradeId |-> tradeId, outcome |-> outcome, position_id |-> positionId,
     realized_pnl |-> realizedPnl, cost_basis |-> costBasis]

NoCall == Call("none", 0, "", 0, 0, 0, "", NULL, 0, 0)

\* a connection with no call in progress
Idle == [pc |-> "idle", op |-> "none", walletId |-> 0, token |-> "", amount |-> 0,
         value |-> 0, tradeId |-> 0, rows |-> <<>>]

\* a call that has run its SELECT and holds the rows it read
Selected(op, w, t, amount, value, tradeId, rows) ==
    [pc |-> "selected", op |-> op, walletId |-> w, token |-> t, amount |-> amount,
     value |-> value, tradeId |-> tradeId, rows |-> rows]

\* a sell that has run its UPDATE: written is the row version it wrote and
\* has not committed, raised the number of advisory flags it has inserted
Updated(tx, written, raised) ==
    [pc |-> "updated", op |-> tx.op, walletId |-> tx.walletId, token |-> tx.token,
     amount |-> tx.amount, value |-> tx.value, tradeId |-> tx.tradeId,
     rows |-> tx.rows, written |-> written, raised |-> raised]

Init ==
    /\ positions = <<>>
    /\ flags = <<>>
    /\ console = <<>>
    /\ lots = <<>>
    /\ clock = 1
    /\ last = NoCall
    /\ txs = [p \in Procs |-> Idle]

\* ------------------------------------------------------------- recordBuy
\* the transaction body of recordBuy after its SELECT returned existingRows:
\* the INSERT or the UPDATE, then COMMIT (or ROLLBACK when the statement
\* fails); now is what new Date() reads
BuyWrite(existingRows, w, t, amount, cost, tradeId, now) ==
    /\ flags' = flags \o BuyFlags(w, t, amount, cost, tradeId)
    /\ console' = console \o Logged(BuyFlags(w, t, amount, cost, tradeId))
    /\ IF Len(existingRows) = 0
       THEN LET id == Len(positions) + 1
                inserted == Append(positions,
                                NewPosition(id, w, t, amount, cost, tradeId, now))
            IN  /\ clock' = now
                /\ IF UniqueOk(inserted)
                   THEN /\ positions' = inserted
                        /\ last' = Call("buy", w, t, amount, cost, tradeId, "ok", id, 0, 0)
                   ELSE /\ UNCHANGED positions
                        /\ last' = Call("buy", w, t, amount, cost, tradeId,
                                        "unique_violation", NULL, 0, 0)
       ELSE LET existing == existingRows[1]
            IN  /\ UNCHANGED clock
                /\ positions' = [positions EXCEPT ![existing.id] =
                                    BuyUpdate(positions[existing.id], existing, amount, cost)]
                /\ last' = Call("buy", w, t, amount, cost, tradeId, "ok", existing.id, 0, 0)

\* recordBuy, one call run from start to end with no other call in between
RecordBuy(w, t, amount, cost, tradeId, now) ==
    /\ UNCHANGED txs
    /\ IF BuyAmountInvalid(amount)
       THEN /\ last' = Call("buy", w, t, amount, cost, tradeId, "invalid_amount", NULL, 0, 0)
            /\ UNCHANGED <<positions, flags, console, clock>>
       ELSE IF BuyCostInvalid(cost)
       THEN /\ last' = Call("buy", w, t, amount, cost, tradeId, "invalid_cost", NULL, 0, 0)
            /\ UNCHANGED <<positions, flags, console, clock>>
       ELSE \E existingRows \in SelectRows(positions, w, t) :
                BuyWrite(existingRows, w, t, amount, cost, tradeId, now)

\* ------------------------------------------------------------ recordSell
\* the transaction body of recordSell after its SELECT returned positionRows:
\* the two checks with their flags, the UPDATE, the advisory flags, then
\* COMMIT (or ROLLBACK when a check or the statement fails)
SellWrite(positionRows, w, t, amount, proceeds, tradeId, now) ==
    /\ IF Len(positionRows) = 0
       THEN /\ flags' = FlagIssue(flags, SellWithoutPositionFlag(w, t, amount, tradeId))
            /\ console' = ConsoleError(console,
                                       SellWithoutPositionFlag(w, t, amount, tradeId))
            /\ last' = Call("sell", w, t, amount, proceeds, tradeId, "no_position", NULL, 0, 0)
            /\ UNCHANGED <<positions, clock>>
       ELSE LET position == positionRows[1]
                costBasis == CostBasis(position.avg_entry_price, amount)
                realizedPnl == RealizedPnl(proceeds, costBasis)
                updated == [positions EXCEPT ![position.id] =
                               SellUpdate(positions[position.id], position,
                                          amount, proceeds, now)]
            IN  IF SellExceeds(amount, position.current_amount)
                THEN /\ flags' = FlagIssue(flags,
                                    SellExceedsPositionFlag(position, w, t, amount, tradeId))
                     /\ console' = ConsoleError(console,
                                       SellExceedsPositionFlag(position, w, t, amount, tradeId))
                     /\ last' = Call("sell", w, t, amount, proceeds, tradeId,
                                     "exceeds_position", position.id, 0, 0)
                     /\ UNCHANGED <<positions, clock>>
                ELSE /\ clock' = now
                     /\ IF ~UniqueOk(updated)
                        THEN /\ last' = Call("sell", w, t, amount, proceeds, tradeId,
                                             "unique_violation", position.id, 0, 0)
                             /\ UNCHANGED <<positions, flags, console>>
                        ELSE IF AdvisoryBlocked(AdvisoryFlags(position, w, t, amount,
                                                              proceeds, tradeId),
                                                positions[position.id],
                                                updated[position.id])
                        THEN /\ last' = Call("sell", w, t, amount, proceeds, tradeId,
                                             "hangs", position.id, 0, 0)
                             /\ UNCHANGED <<positions, flags, console>>
                        ELSE /\ positions' = updated
                             /\ flags' = flags \o AdvisoryFlags(position, w, t, amount,
                                                                proceeds, tradeId)
                             /\ console' = console \o Logged(AdvisoryFlags(position, w, t,
                                                            amount, proceeds, tradeId))
                             /\ last' = Call("sell", w, t, amount, proceeds, tradeId,
                                             "ok", position.id, realizedPnl, costBasis)

\* recordSell, one call run from start to end with no other call in between
RecordSell(w, t, amount, proceeds, tradeId, now) ==
    /\ UNCHANGED txs
    /\ IF SellAmountInvalid(amount)
       THEN /\ last' = Call("sell", w, t, amount, proceeds, tradeId, "invalid_amount", NULL, 0, 0)
            /\ UNCHANGED <<positions, flags, console, clock>>
       ELSE IF SellProceedsInvalid(proceeds)
       THEN /\ last' = Call("sell", w, t, amount, proceeds, tradeId, "invalid_proceeds", NULL, 0, 0)
            /\ UNCHANGED <<positions, flags, console, clock>>
       ELSE \E positionRows \in SelectRows(positions, w, t) :
                SellWrite(positionRows, w, t, amount, proceeds, tradeId, now)

\* faulty variant: flagIssue catches the error of its INSERT and returns, so
\* the caller goes on to the outcome of its own check
FlagIssueSwallows(checkOutcome) == checkOutcome

\* flagIssue awaits its INSERT with no catch around it: a rejected query
\* rejects flagIssue before anything is logged, and the recordSell awaiting
\* it ends with that error instead of the outcome of its own check
FlagIssueFails(checkOutcome) == "flag_failed"

\* recordSell, one call run from start to end, in which the INSERT of the
\* first flag it raises is rejected (the trade or wallet the flag refers to
\* has no row, or the connection is lost): nothing is persisted, and an
\* UPDATE already run is rolled back
RecordSellFlagFails(w, t, amount, proceeds, tradeId, now) ==
    /\ ~SellAmountInvalid(amount)
    /\ ~SellProceedsInvalid(proceeds)
    /\ \E positionRows \in SelectRows(positions, w, t) :
        LET checkOutcome ==
                IF Len(positionRows) = 0 THEN "no_position"
                ELSE IF SellExceeds(amount, positionRows[1].current_amount)
                     THEN "exceeds_position" ELSE "ok"
            positionId == IF Len(positionRows) = 0 THEN NULL ELSE positionRows[1].id
        IN  /\ checkOutcome = "ok" =>
                LET position == positionRows[1]
                    written == SellUpdate(positions[position.id], position,
                                          amount, proceeds, now)
                    advisory == AdvisoryFlags(position, w, t, amount, proceeds, tradeId)
                IN  /\ UniqueOk([positions EXCEPT ![position.id] = written])
                    /\ advisory # <<>>
                    /\ ~AdvisoryBlocked(advisory, positions[position.id], written)
            /\ clock' = IF checkOutcome = "ok" THEN now ELSE clock
            /\ last' = Call("sell", w, t, amount, proceeds, tradeId,
                            FlagIssueFails(checkOutcome), positionId, 0, 0)
    /\ UNCHANGED <<positions, flags, console, txs>>

\* the previous call has come back to its caller
Returned == last.outcome # "hangs"

\* a caller runs recordBuy / recordSell on inputs of the given sets
BuyOf(amounts, costs, maxTotal) ==
    /\ Returned
    /\ \E w \in Wallets, t \in Tokens, a \in amounts, c \in costs, tr \in TradeIds :
        \E now \in Times : now >= clock /\ RecordBuy(w, t, a, c, tr, now)
    /\ TotalBought(positions') <= maxTotal
    /\ UNCHANGED lots

SellOf(amounts, proceeds, maxFlags) ==
    /\ Returned
    /\ \E w \in Wallets, t \in Tokens, a \in amounts, p \in proceeds, tr \in TradeIds :
        \E now \in Times : now >= clock /\ RecordSell(w, t, a, p, tr, now)
    /\ Len(flags') <= maxFlags
    /\ UNCHANGED lots

Buy == BuyOf(BuyAmounts, Costs, MaxTotal)

Sell == SellOf(Amounts, Proceeds, MaxFlags)

\* -------------------------------------------------------- getOpenPosition
\* faulty variant: the result is null whatever the query returned
OpenPositionOfNever(rows) == NULL

\* what getOpenPosition returns for the rows of its query: null, or the
\* first row (the model keeps the row's id)
OpenPositionOf(rows) == IF Len(rows) = 0 THEN NULL ELSE rows[1].id

\* getOpenPosition: one SELECT on the pool, no write
GetOpenPosition(w, t) ==
    /\ \E rows \in SelectRows(positions, w, t) :
        last' = Call("get", w, t, 0, 0, 0,
                     IF OpenPositionOf(rows) = NULL THEN "none" ELSE "ok",
                     OpenPositionOf(rows), 0, 0)
    /\ UNCHANGED <<positions, flags, console, lots, clock, txs>>

Get == Returned /\ \E w \in Wallets, t \in Tokens : GetOpenPosition(w, t)

\* calls run one at a time
Next == Buy \/ Sell \/ Get

Spec == Init /\ [][Next]_vars

\* calls run one at a time on positions whose value is around the
\* large-position threshold
BuyLarge == BuyOf(LargeAmounts, LargeCosts, MaxTotal)

SellLarge == SellOf(LargeAmounts, LargeProceeds, MaxLargeFlags)

NextLarge == BuyLarge \/ SellLarge \/ Get

SpecLarge == Init /\ [][NextLarge]_vars

\* the calls on large positions, with sells whose flag cannot be persisted
SellFlagFailure ==
    /\ Returned
    /\ \E w \in Wallets, t \in Tokens, a \in LargeAmounts, p \in LargeProceeds,
          tr \in TradeIds :
        \E now \in Times : now >= clock /\ RecordSellFlagFails(w, t, a, p, tr, now)
    /\ UNCHANGED lots

NextFault == BuyLarge \/ SellLarge \/ SellFlagFailure

SpecFault == Init /\ [][NextFault]_vars

\* calls run one at a time on amounts that take all the bits of a double
MaxFloatTotal == 2 ^ FloatBits + 8

\* the runs stay where the doubles run out of bits: a position is emptied
\* or keeps about 2^FloatBits units
AroundFloatLimit(pos) ==
    \A i \in Ids(pos) :
        pos[i].current_amount = 0 \/ pos[i].current_amount >= 2 ^ FloatBits - 2

BuyFloat ==
    /\ BuyOf(FloatBuyAmounts, FloatCosts, MaxFloatTotal)
    /\ AroundFloatLimit(positions')

SellFloat ==
    /\ SellOf(FloatSellAmounts, FloatProceeds, MaxFlags)
    /\ AroundFloatLimit(positions')

NextFloat == BuyFloat \/ SellFloat

SpecFloat == Init /\ [][NextFloat]_vars

\* ------------------------------------------------ the reference lot ledger
\* lots[id] lists the unsold buy lots of position id, earliest first; a lot
\* is the amount left of one buy and the cost of that amount (1/Scale)
Lot(amount, cost) == [amount |-> amount, cost |-> cost]

\* the lots after a recordBuy: a buy that succeeds adds its lot behind the
\* lots of the position it returns
LotsAfterBuy(ls, call) ==
    IF call.outcome # "ok" THEN ls
    ELSE IF call.position_id > Len(ls)
         THEN Append(ls, <<Lot(call.amount, call.value)>>)
         ELSE [ls EXCEPT ![call.position_id] = Append(@, Lot(call.amount, call.value))]

\* the cost of the earliest amount units of the lots l, in units of
\* 1/Scale^2 like the cost basis recordSell returns
RECURSIVE FifoCostBasis(_, _)
FifoCostBasis(l, amount) ==
    IF amount = 0 \/ l = <<>> THEN 0
    ELSE LET take == IF Head(l).amount <= amount THEN Head(l).amount ELSE amount
         IN  RoundDiv(Head(l).cost * take * Scale, Head(l).amount)
                 + FifoCostBasis(Tail(l), amount - take)

\* the lots l with their earliest amount units taken out
RECURSIVE Consume(_, _)
Consume(l, amount) ==
    IF amount = 0 \/ l = <<>> THEN l
    ELSE IF Head(l).amount <= amount
         THEN Consume(Tail(l), amount - Head(l).amount)
         ELSE <<Lot(Head(l).amount - amount,
                    Head(l).cost - RoundDiv(Head(l).cost * amount, Head(l).amount))>>
                  \o Tail(l)

\* the lots after a recordSell: a sell that succeeds consumes the earliest
\* lots of its position
LotsAfterSell(ls, call) ==
    IF call.outcome # "ok" THEN ls
    ELSE [ls EXCEPT ![call.position_id] = Consume(@, call.amount)]

\* recordBuy / recordSell with the reference ledger kept beside the tables
BuyFifo ==
    /\ Returned
    /\ \E w \in Wallets, t \in Tokens, a \in FifoAmounts, c \in FifoCosts, tr \in TradeIds :
        \E now \in Times : now >= clock /\ RecordBuy(w, t, a, c, tr, now)
    /\ TotalBought(positions') <= MaxTotal
    /\ lots' = LotsAfterBuy(lots, last')

SellFifo ==
    /\ Returned
    /\ \E w \in Wallets, t \in Tokens, a \in FifoAmounts, p \in FifoProceeds,
          tr \in TradeIds :
        \E now \in Times : now >= clock /\ RecordSell(w, t, a, p, tr, now)
    /\ Len(flags') <= MaxFlags
    /\ lots' = LotsAfterSell(lots, last')

NextFifo == BuyFifo \/ SellFifo

SpecFifo == Init /\ [][NextFifo]_vars

\* ------------------------------------------------------- concurrent calls
\* Two connections run calls whose transactions overlap.  Each transaction
\* runs at READ COMMITTED: its SELECT reads the committed rows.  A buy, a
\* rejected sell and a sell without advisory flags run nothing between their
\* write statement and the end of the transaction, so the two are one step
\* (a statement that has to wait for another transaction's row lock or
\* unique key runs after that transaction has ended).  A sell with advisory
\* flags awaits each flag between its UPDATE and its COMMIT.  The inputs are
\* valid: the amount checks throw before the transaction starts.

\* a call passes its amount checks, BEGINs and runs its SELECT
BuyBegin(p) ==
    /\ txs[p].pc = "idle"
    /\ \E w \in Wallets, t \in Tokens, a \in ConcAmounts, c \in ConcCosts, tr \in TradeIds :
        \E existingRows \in SelectRows(positions, w, t) :
            /\ ~BuyAmountInvalid(a)
            /\ ~BuyCostInvalid(c)
            /\ txs' = [txs EXCEPT ![p] = Selected("buy", w, t, a, c, tr, existingRows)]
    /\ UNCHANGED <<positions, flags, console, lots, clock, last>>

SellBegin(p) ==
    /\ txs[p].pc = "idle"
    /\ \E w \in Wallets, t \in Tokens, a \in ConcAmounts, pr \in ConcProceeds, tr \in TradeIds :
        \E positionRows \in SelectRows(positions, w, t) :
            /\ ~SellAmountInvalid(a)
            /\ ~SellProceedsInvalid(pr)
            /\ txs' = [txs EXCEPT ![p] = Selected("sell", w, t, a, pr, tr, positionRows)]
    /\ UNCHANGED <<positions, flags, console, lots, clock, last>>

\* the advisory flags the sell of transaction tx has to raise after its
\* UPDATE (none when the sell is rejected by one of the two checks)
Advisory(tx) ==
    IF Len(tx.rows) = 0 \/ SellExceeds(tx.amount, tx.rows[1].current_amount)
    THEN <<>>
    ELSE AdvisoryFlags(tx.rows[1], tx.walletId, tx.token, tx.amount, tx.value,
                       tx.tradeId)

\* connection q has run its UPDATE and not yet ended its transaction
Pending(q) == txs[q].pc = "updated"

\* another transaction's uncommitted UPDATE holds the lock of row id
RowLocked(p, id) ==
    \E q \in Procs \ {p} : Pending(q) /\ txs[q].written.id = id

\* an INSERT of an OPEN row of the pair meets the OPEN row that another
\* transaction's uncommitted UPDATE is moving to another status, and waits
\* for that transaction on the unique index
InsertWaits(p, w, t) ==
    \E q \in Procs \ {p} :
        /\ Pending(q)
        /\ positions[txs[q].written.id].wallet_id = w
        /\ positions[txs[q].written.id].token = t
        /\ positions[txs[q].written.id].status = "OPEN"
        /\ txs[q].written.status # "OPEN"

\* the write statement of transaction tx of connection p has to wait
WriteWaits(p, tx) ==
    IF Len(tx.rows) = 0
    THEN tx.op = "buy" /\ InsertWaits(p, tx.walletId, tx.token)
    ELSE RowLocked(p, tx.rows[1].id)

\* The INSERT of flagIssue runs on a pool connection of its own.  A flag
\* that names a position takes a key-share lock on that row for its foreign
\* key; the lock waits for an uncommitted UPDATE that changed status, a
\* column of the table's unique key.
FlagInsertBlocked(positionId) ==
    /\ positionId # NULL
    /\ \E q \in Procs :
        /\ Pending(q)
        /\ txs[q].written.id = positionId
        /\ txs[q].written.status # positions[positionId].status

\* the rest of the transaction, on the rows its SELECT read
BuyEnd(p) ==
    /\ txs[p].pc = "selected"
    /\ txs[p].op = "buy"
    /\ ~WriteWaits(p, txs[p])
    /\ \E now \in Times :
        /\ now >= clock
        /\ BuyWrite(txs[p].rows, txs[p].walletId, txs[p].token, txs[p].amount,
                    txs[p].value, txs[p].tradeId, now)
    /\ TotalBought(positions') <= MaxTotal
    /\ txs' = [txs EXCEPT ![p] = Idle]
    /\ UNCHANGED lots

\* a sell that raises no advisory flag: nothing runs between its UPDATE and
\* its COMMIT (or between the flag of a failed check and its ROLLBACK)
SellEnd(p) ==
    /\ txs[p].pc = "selected"
    /\ txs[p].op = "sell"
    /\ Advisory(txs[p]) = <<>>
    /\ IF Len(txs[p].rows) > 0 /\ SellExceeds(txs[p].amount, txs[p].rows[1].current_amount)
       THEN ~FlagInsertBlocked(txs[p].rows[1].id)
       ELSE ~WriteWaits(p, txs[p])
    /\ \E now \in Times :
        /\ now >= clock
        /\ SellWrite(txs[p].rows, txs[p].walletId, txs[p].token, txs[p].amount,
                     txs[p].value, txs[p].tradeId, now)
    /\ Len(flags') <= MaxFlags
    /\ txs' = [txs EXCEPT ![p] = Idle]
    /\ UNCHANGED lots

\* a sell that has advisory flags to raise runs its UPDATE; the new row
\* version stays uncommitted while the flags are awaited
SellWriteRow(p) ==
    /\ txs[p].pc = "selected"
    /\ txs[p].op = "sell"
    /\ Advisory(txs[p]) # <<>>
    /\ ~WriteWaits(p, txs[p])
    /\ \E now \in Times :
        /\ now >= clock
        /\ clock' = now
        /\ LET tx == txs[p]
               position == tx.rows[1]
               written == SellUpdate(positions[position.id], position,
                                     tx.amount, tx.value, now)
           IN  IF ~UniqueOk([positions EXCEPT ![position.id] = written])
               THEN /\ last' = Call("sell", tx.walletId, tx.token, tx.amount, tx.value,
                                    tx.tradeId, "unique_violation", position.id, 0, 0)
                    /\ txs' = [txs EXCEPT ![p] = Idle]
               ELSE /\ txs' = [txs EXCEPT ![p] = Updated(tx, written, 0)]
                    /\ UNCHANGED last
    /\ UNCHANGED <<positions, flags, console, lots>>

\* the next advisory flag of the sell is inserted and stays, whatever the
\* transaction does afterwards
SellFlag(p) ==
    /\ Pending(p)
    /\ txs[p].raised < Len(Advisory(txs[p]))
    /\ ~FlagInsertBlocked(txs[p].written.id)
    /\ flags' = FlagIssue(flags, Advisory(txs[p])[txs[p].raised + 1])
    /\ console' = ConsoleError(console, Advisory(txs[p])[txs[p].raised + 1])
    /\ Len(flags') <= MaxFlags
    /\ txs' = [txs EXCEPT ![p] = Updated(txs[p], txs[p].written, txs[p].raised + 1)]
    /\ UNCHANGED <<positions, lots, clock, last>>

\* the INSERT of an advisory flag fails: flagIssue rejects, the callback of
\* the transaction throws and the UPDATE is rolled back
SellFlagFails(p) ==
    /\ Pending(p)
    /\ txs[p].raised < Len(Advisory(txs[p]))
    /\ last' = Call("sell", txs[p].walletId, txs[p].token, txs[p].amount, txs[p].value,
                    txs[p].tradeId, "flag_failed", txs[p].written.id, 0, 0)
    /\ txs' = [txs EXCEPT ![p] = Idle]
    /\ UNCHANGED <<positions, flags, console, lots, clock>>

\* every advisory flag is in: the callback returns and COMMIT publishes the
\* row version
SellCommit(p) ==
    /\ Pending(p)
    /\ txs[p].raised = Len(Advisory(txs[p]))
    /\ LET tx == txs[p]
           costBasis == CostBasis(tx.rows[1].avg_entry_price, tx.amount)
       IN  /\ positions' = [positions EXCEPT ![tx.written.id] = tx.written]
           /\ last' = Call("sell", tx.walletId, tx.token, tx.amount, tx.value, tx.tradeId,
                           "ok", tx.written.id, RealizedPnl(tx.value, costBasis), costBasis)
    /\ txs' = [txs EXCEPT ![p] = Idle]
    /\ UNCHANGED <<flags, console, lots, clock>>

NextConc ==
    \E p \in Procs :
        \/ BuyBegin(p)
        \/ SellBegin(p)
        \/ BuyEnd(p)
        \/ SellEnd(p)
        \/ SellWriteRow(p)
        \/ SellFlag(p)
        \/ SellFlagFails(p)
        \/ SellCommit(p)

SpecConc == Init /\ [][NextConc]_vars

\* =================================================================== claims
\* vocabulary of the claims, stated on the stored rows
Active(row) == row.status \in {"OPEN", "PARTIAL"}

ActiveIdsOf(pos, w, t) ==
    {i \in Ids(pos) : pos[i].wallet_id = w /\ pos[i].token = t /\ Active(pos[i])}

ClosedIdsOf(pos, w, t) ==
    {i \in Ids(pos) : pos[i].wallet_id = w /\ pos[i].token = t /\ pos[i].status = "CLOSED"}

StatusRank(st) == IF st = "OPEN" THEN 0 ELSE IF st = "PARTIAL" THEN 1 ELSE 2

\* the step is a call of recordSell / recordBuy (last' is the call's record)
SellStep == last'.op = "sell"
BuyStep == last'.op = "buy"

\* the step appended exactly one flag and touched no older one
OneNewFlag == /\ Len(flags') = Len(flags) + 1
              /\ SubSeq(flags', 1, Len(flags)) = flags

NewFlag == flags'[Len(flags')]

\* C1: a recordSell succeeds (returns a result and mutates a position) only
\* if 0 < amount <= remaining amount of an OPEN/PARTIAL position of the
\* pair; in every other case it fails and changes no position.
C1_SellOnlyWithinPosition ==
    [][SellStep =>
        LET covered ==
                \E i \in ActiveIdsOf(positions, last'.walletId, last'.token) :
                    0 < last'.amount /\ last'.amount <= positions[i].current_amount
        IN  /\ last'.outcome = "ok" => (covered /\ positions' # positions)
            /\ ~covered => (last'.outcome # "ok" /\ positions' = positions)]_vars

\* a sell succeeded after an earlier sell had been rejected with a flag
C1_Witness ==
    /\ last.op = "sell"
    /\ last.outcome = "ok"
    /\ Len(flags) >= 1

C3_SellWithoutPosition ==
    [][(/\ SellStep
        /\ last'.amount > 0
        /\ last'.value >= 0
        /\ ActiveIdsOf(positions, last'.walletId, last'.token) = {})
       => /\ last'.outcome = "no_position"
          /\ OneNewFlag
          /\ NewFlag.flag_type = "sell_without_position"
          /\ NewFlag.severity = "critical"
          /\ NewFlag.position_id = NULL
          /\ NewFlag.wallet_id = last'.walletId
          /\ NewFlag.trade_id = last'.tradeId
          /\ positions' = positions]_vars

C3_Witness ==
    /\ last.op = "sell"
    /\ last.outcome = "no_position"
    /\ positions = <<>>
    /\ Len(flags) = 1

\* C4: a recordSell whose amount exceeds the remaining amount of the pair's
\* OPEN/PARTIAL position fails with "insufficient position size"; exactly one
\* new flag is persisted (sell_exceeds_position, critical, linked to that
\* position and the trade reference) and every position field is unchanged.
C4_SellExceedsPosition ==
    [][(/\ SellStep
        /\ last'.value >= 0
        /\ \E i \in ActiveIdsOf(positions, last'.walletId, last'.token) :
               last'.amount > positions[i].current_amount)
       => /\ last'.outcome = "exceeds_position"
          /\ OneNewFlag
          /\ NewFlag.flag_type = "sell_exceeds_position"
          /\ NewFlag.severity = "critical"
          /\ NewFlag.position_id \in ActiveIdsOf(positions, last'.walletId, last'.token)
          /\ NewFlag.position_id = last'.position_id
          /\ NewFlag.wallet_id = last'.walletId
          /\ NewFlag.trade_id = last'.tradeId
          /\ positions' = positions]_vars

C4_Witness ==
    /\ last.op = "sell"
    /\ last.outcome = "exceeds_position"
    /\ Len(flags) = 1
    /\ positions[last.position_id].current_amount < last.amount

C7_FullSellCloses ==
    [][\A i \in Ids(positions) :
        (/\ SellStep
         /\ i \in ActiveIdsOf(positions, last'.walletId, last'.token)
         /\ last'.amount = positions[i].current_amount
         /\ last'.value >= 0)
        => /\ last'.outcome = "ok"
           /\ positions'[i].current_amount = 0
           /\ positions'[i].status = "CLOSED"
           /\ positions'[i].closed_at # NULL]_vars

C9_OneActivePositionPerPair ==
    \A w \in Wallets, t \in Tokens :
        Cardinality(ActiveIdsOf(positions, w, t)) <= 1

\* a buy that found the pair's PARTIAL position and added to it
C9_Witness ==
    /\ last.op = "buy"
    /\ last.outcome = "ok"
    /\ positions[last.position_id].status = "PARTIAL"
    /\ Cardinality(ActiveIdsOf(positions, last.walletId, last.token)) = 1

\* C10: under any interleaving of concurrent recordBuy and recordSell
\* transactions for one pair, the UNIQUE(wallet_id, token, status)
\* constraint keeps every committed state free of two positions in OPEN or
\* PARTIAL state for that pair (for example one OPEN and one PARTIAL).
C10_NoTwoActiveCommitted ==
    \A i, j \in Ids(positions) :
        (/\ Active(positions[i])
         /\ Active(positions[j])
         /\ positions[i].wallet_id = positions[j].wallet_id
         /\ positions[i].token = positions[j].token) => i = j

\* the step ends the recordSell call that connection p was running
SellReturns(p) ==
    /\ txs[p].op = "sell"
    /\ txs[p].pc # "idle"
    /\ txs'[p].pc = "idle"

\* C11: two concurrent recordSell calls on one position behave as if run one
\* after the other: a sell that succeeds on a position no buy has touched
\* since the sell read it fits in the remaining amount that is committed
\* when it commits and takes exactly its amount off it, so two sells whose
\* amounts together exceed the remaining amount never both succeed.
C11_ConcurrentSellsSerialize ==
    [][\A p \in Procs :
        (/\ SellReturns(p)
         /\ last'.outcome = "ok"
         /\ txs[p].rows[1].total_entry_amount =
                positions[last'.position_id].total_entry_amount) =>
            LET id == last'.position_id
            IN  /\ last'.amount <= positions[id].current_amount
                /\ positions'[id].current_amount =
                       positions[id].current_amount - last'.amount
                /\ positions'[id].total_exit_amount =
                       positions[id].total_exit_amount + last'.amount]_vars

\* C12: each call is one atomic unit: in no state that another connection
\* can read is a flag raised by a sell stored while the position mutation of
\* that sell is not committed.
C12_FlagsCommitWithMutation ==
    \A p \in Procs :
        (Pending(p) /\ txs[p].raised > 0) =>
            positions[txs[p].written.id] = txs[p].written

\* C13: once a recordSell has passed its checks and run its UPDATE, whatever
\* happens while its advisory flags are persisted, the call ends by
\* returning its result with the position mutation committed.
C13_AdvisoryFlagsNeverAbort ==
    [][\A p \in Procs :
        (Pending(p) /\ txs'[p].pc = "idle") =>
            /\ last'.outcome = "ok"
            /\ positions'[txs[p].written.id] = txs[p].written]_vars

\* the four cumulative totals of row i, all zero for a row not yet there
Totals(pos, i) ==
    IF i \in Ids(pos)
    THEN [entry_amount |-> pos[i].total_entry_amount,
          entry_cost |-> pos[i].total_entry_cost,
          exit_amount |-> pos[i].total_exit_amount,
          exit_proceeds |-> pos[i].total_exit_proceeds]
    ELSE [entry_amount |-> 0, entry_cost |-> 0, exit_amount |-> 0, exit_proceeds |-> 0]

OnlyBought(row) == row.total_exit_amount = 0 /\ row.status = "OPEN"

\* C15 as stated: after each buy of a sequence of buys on a fresh pair the
\* average entry price equals cumulative entry cost / cumulative entry
\* amount (avg_entry_price is in units of 1/Scale).
C15_AvgIsExactQuotient ==
    \A i \in Ids(positions) :
        OnlyBought(positions[i]) =>
            positions[i].avg_entry_price * positions[i].total_entry_amount =
                positions[i].total_entry_cost * Scale

\* C15 amended: after each buy of a sequence of buys on a fresh pair the
\* average entry price is cumulative entry cost / cumulative entry amount
\* rounded to the column's last digit: it differs from the quotient by at
\* most half a unit of that digit.
C15_AvgIsRoundedQuotient ==
    \A i \in Ids(positions) :
        OnlyBought(positions[i]) =>
            LET d == positions[i].avg_entry_price * positions[i].total_entry_amount
                         - positions[i].total_entry_cost * Scale
            IN  /\ 2 * d <= positions[i].total_entry_amount
                /\ -2 * d <= positions[i].total_entry_amount

\* a second buy left a position whose cost does not divide evenly
C15_Witness ==
    /\ last.op = "buy"
    /\ last.outcome = "ok"
    /\ OnlyBought(positions[last.position_id])
    /\ positions[last.position_id].total_entry_amount = 3
    /\ positions[last.position_id].total_entry_cost = 4
    /\ positions[last.position_id].avg_entry_price = 3

\* C16: a recordSell, successful or rejected, adds no position and leaves
\* total_entry_amount, total_entry_cost, avg_entry_price and first_entry_at
\* of every position as they were.
C16_SellKeepsEntryFields ==
    [][SellStep =>
        /\ Len(positions') = Len(positions)
        /\ \A i \in Ids(positions) :
            /\ positions'[i].total_entry_amount = positions[i].total_entry_amount
            /\ positions'[i].total_entry_cost = positions[i].total_entry_cost
            /\ positions'[i].avg_entry_price = positions[i].avg_entry_price
            /\ positions'[i].first_entry_at = positions[i].first_entry_at]_vars

\* a sell took 2 of the 3 units of a position bought in one buy
C16_Witness ==
    /\ last.op = "sell"
    /\ last.outcome = "ok"
    /\ last.amount = 2
    /\ positions[last.position_id].total_entry_amount = 3
    /\ positions[last.position_id].total_entry_cost = 2
    /\ positions[last.position_id].current_amount = 1

\* row is what a buy described by call creates, the average price aside
CreatedBy(row, call) ==
    /\ row.wallet_id = call.walletId
    /\ row.token = call.token
    /\ row.status = "OPEN"
    /\ row.total_entry_amount = call.amount
    /\ row.total_entry_cost = call.value
    /\ row.current_amount = call.amount
    /\ row.total_exit_amount = 0
    /\ row.total_exit_proceeds = 0
    /\ row.realized_pnl = 0
    /\ call.position_id = row.id

\* the step is a valid recordBuy for a pair that has no OPEN/PARTIAL position
BuyOpensStep ==
    /\ BuyStep
    /\ last'.amount > 0
    /\ last'.value > 0
    /\ ActiveIdsOf(positions, last'.walletId, last'.token) = {}

\* the step added exactly one position and touched no older one
OneNewPosition ==
    /\ Len(positions') = Len(positions) + 1
    /\ SubSeq(positions', 1, Len(positions)) = positions

\* C17 as stated: a valid recordBuy for a pair with no OPEN/PARTIAL position
\* creates exactly one position with entry amount = amount, entry cost =
\* cost, average entry price = cost / amount, remaining = amount, exit
\* amount = exit proceeds = realized P&L = 0 and status OPEN, and returns it.
C17_BuyCreatesPosition ==
    [][BuyOpensStep =>
        /\ last'.outcome = "ok"
        /\ OneNewPosition
        /\ CreatedBy(positions'[Len(positions')], last')
        /\ positions'[Len(positions')].avg_entry_price * last'.amount =
               last'.value * Scale]_vars

\* C17 amended: as stated, with average entry price = cost / amount rounded
\* to the column's last digit (at most half a unit of it off the quotient).
C17_BuyCreatesRoundedPosition ==
    [][BuyOpensStep =>
        /\ last'.outcome = "ok"
        /\ OneNewPosition
        /\ CreatedBy(positions'[Len(positions')], last')
        /\ LET d == positions'[Len(positions')].avg_entry_price * last'.amount
                        - last'.value * Scale
           IN  2 * d <= last'.amount /\ -2 * d <= last'.amount]_vars

\* a first buy of 3 units for a cost of 2 opened the pair's position
C17_Witness ==
    /\ last.op = "buy"
    /\ last.outcome = "ok"
    /\ last.amount = 3
    /\ Len(positions) = 1
    /\ positions[1].status = "OPEN"
    /\ positions[1].total_entry_amount = 3
    /\ positions[1].total_exit_amount = 0

SellResultOf(old, new, call) ==
    /\ call.cost_basis = old.avg_entry_price * call.amount
    /\ call.realized_pnl = call.value * Scale - call.cost_basis
    /\ new.id = old.id
    /\ new.current_amount = old.current_amount - call.amount
    /\ new.total_exit_amount = old.total_exit_amount + call.amount
    /\ new.total_exit_proceeds = old.total_exit_proceeds + call.value

\* the step is a recordSell that returned a result
SellOkStep == SellStep /\ last'.outcome = "ok"

PnlOf(pos, i) == IF i \in Ids(pos) THEN pos[i].realized_pnl * Scale ELSE 0

\* the realized P&L the step's call returned for row i: that of a
\* successful sell on it, nothing for any other call
ReturnedPnl(i) ==
    IF SellOkStep /\ last'.position_id = i THEN last'.realized_pnl ELSE 0

\* C22 as stated: the cumulative realized P&L of a position is the sum of
\* the realized P&L returned by the successful sells on it.  Step by step:
\* every call moves realized_pnl of every position by exactly what it
\* returned for it; buys and rejected sells contribute nothing.
C22_PnlIsSumOfReturned ==
    [][\A i \in Ids(positions') :
        PnlOf(positions', i) = PnlOf(positions, i) + ReturnedPnl(i)]_vars

\* C22 amended: each successful sell adds its returned realized P&L rounded
\* to the column's last digit, so the cumulative value is off the sum of the
\* returned values by at most half a unit of that digit per sell; buys and
\* rejected sells contribute nothing.
C22_PnlIsSumOfRounded ==
    [][\A i \in Ids(positions') :
        LET d == PnlOf(positions', i) - (PnlOf(positions, i) + ReturnedPnl(i))
        IN  IF ReturnedPnl(i) = 0 THEN d = 0
            ELSE 2 * d <= Scale /\ -2 * d <= Scale]_vars

\* the second sell on a position of 3 units added to a P&L already there
C22_Witness ==
    /\ last.op = "sell"
    /\ last.outcome = "ok"
    /\ last.realized_pnl # 0
    /\ positions[last.position_id].total_entry_amount = 3
    /\ positions[last.position_id].total_exit_amount = 2
    /\ positions[last.position_id].realized_pnl * Scale # last.realized_pnl

GetStep == last'.op = "get"

\* C24: getOpenPosition(wallet, token) returns the pair's position whose
\* status is OPEN or PARTIAL, returns none when the pair has no such
\* position (never a CLOSED one), and changes no position and no flag.
C24_GetOpenPositionReadsOnly ==
    [][GetStep =>
        LET active == ActiveIdsOf(positions, last'.walletId, last'.token)
        IN  /\ active = {} => (last'.outcome = "none" /\ last'.position_id = NULL)
            /\ active # {} => (last'.outcome = "ok" /\ last'.position_id \in active)
            /\ positions' = positions
            /\ flags' = flags]_vars

\* getOpenPosition returned none right after a sell had closed the pair's
\* only position
C24_Witness ==
    /\ last.op = "get"
    /\ last.outcome = "none"
    /\ Len(positions) = 1
    /\ positions[1].status = "CLOSED"
    /\ positions[1].wallet_id = last.walletId
    /\ positions[1].token = last.token

\* C25: a valid recordSell for a pair whose only positions are CLOSED
\* behaves like a sell with no position at all: it fails with the 'no open
\* position' error, raises exactly one sell_without_position flag, critical
\* and with no position link, and leaves every row, the CLOSED ones
\* included, unchanged.
C25_SellOnClosedPair ==
    [][(/\ SellStep
        /\ last'.amount > 0
        /\ last'.value >= 0
        /\ ClosedIdsOf(positions, last'.walletId, last'.token) # {}
        /\ ActiveIdsOf(positions, last'.walletId, last'.token) = {})
       => /\ last'.outcome = "no_position"
          /\ last'.position_id = NULL
          /\ OneNewFlag
          /\ NewFlag.flag_type = "sell_without_position"
          /\ NewFlag.severity = "critical"
          /\ NewFlag.position_id = NULL
          /\ NewFlag.resolved = FALSE
          /\ positions' = positions]_vars

\* a sell of 1 unit was rejected on a pair whose only position, of 3 units,
\* earlier sells had closed
C25_Witness ==
    /\ last.op = "sell"
    /\ last.outcome = "no_position"
    /\ last.amount = 1
    /\ Len(flags) = 1
    /\ flags[1].position_id = NULL
    /\ Len(positions) = 1
    /\ positions[1].status = "CLOSED"
    /\ positions[1].total_exit_amount = 3

\* the flags the step added
AddedFlags == SubSeq(flags', Len(flags) + 1, Len(flags'))

\* C26: a successful recordSell raises an oversized_position flag, of
\* severity warning and linked to the position and the trade reference, if
\* and only if the pre-sell remaining amount x average entry price is
\* strictly greater than 50,000 (both are in units of 1/Scale); the post-sell
\* remaining amount plays no part.
C26_OversizedIffAboveThreshold ==
    [][SellOkStep =>
        LET old == positions[last'.position_id]
            over == old.current_amount * old.avg_entry_price >
                        OversizedThreshold * Scale * Scale
            raised == {k \in 1 .. Len(AddedFlags) :
                          AddedFlags[k].flag_type = "oversized_position"}
        IN  /\ SubSeq(flags', 1, Len(flags)) = flags
            /\ over => Cardinality(raised) = 1
            /\ ~over => raised = {}
            /\ \A k \in raised :
                /\ AddedFlags[k].severity = "warning"
                /\ AddedFlags[k].position_id = last'.position_id
                /\ AddedFlags[k].trade_id = last'.tradeId
                /\ AddedFlags[k].wallet_id = last'.walletId]_vars

\* a sell of 1 of the 2 units of a position worth just over the threshold
\* succeeded and raised the flag
C26_Witness ==
    /\ last.op = "sell"
    /\ last.outcome = "ok"
    /\ Len(flags) = 1
    /\ flags[1].flag_type = "oversized_position"
    /\ positions[last.position_id].current_amount = 1
    /\ positions[last.position_id].avg_entry_price * 2 >
           OversizedThreshold * Scale * Scale

\* C27: the flags log is append-only. Every step of recordBuy, recordSell and
\* getOpenPosition leaves the flags already logged as they were, in place and
\* in order (none modified, resolved or deleted), and every flag it adds is
\* created unresolved.
C27_FlagsAppendOnly ==
    [][/\ Len(flags') >= Len(flags)
       /\ SubSeq(flags', 1, Len(flags)) = flags
       /\ \A k \in 1 .. Len(AddedFlags) : AddedFlags[k].resolved = FALSE]_vars

\* a rejected sell appended its flag behind a flag logged by an earlier call
C27_Witness ==
    /\ last.op = "sell"
    /\ last.outcome = "no_position"
    /\ Len(flags) = 2
    /\ flags[1].resolved = FALSE
    /\ flags[2].flag_type = "sell_without_position"

\* C28: flagIssue never swallows a persistence failure. A recordSell whose
\* flag cannot be inserted ends with that error and leaves positions, flags
\* and console as they were; a recordSell that ends with the rejection of
\* its own check has persisted exactly one flag, and one that returns a
\* result on an oversized position has persisted its flag; and what a call
\* adds to the console is, flag for flag, what it persisted.
C28_FlagFailureEscalates ==
    [][SellStep =>
        /\ last'.outcome \in {"no_position", "exceeds_position"} => OneNewFlag
        /\ (/\ last'.outcome = "ok"
            /\ positions[last'.position_id].current_amount *
                   positions[last'.position_id].avg_entry_price >
                       OversizedThreshold * Scale * Scale)
              => Len(flags') > Len(flags)
        /\ last'.outcome = "flag_failed" =>
              /\ positions' = positions
              /\ flags' = flags
              /\ console' = console
        /\ Len(flags') >= Len(flags)
        /\ Len(console') = Len(console) + Len(AddedFlags)
        /\ SubSeq(console', 1, Len(console)) = console
        /\ SubSeq(console', Len(console) + 1, Len(console')) = Logged(AddedFlags)]_vars

\* the flag of a sell that exceeds its position could not be inserted: the
\* call ended with the error of the INSERT, behind an earlier flag that was
\* persisted and logged
C28_Witness ==
    /\ last.op = "sell"
    /\ last.outcome = "flag_failed"
    /\ last.position_id # NULL
    /\ positions[last.position_id].current_amount < last.amount
    /\ Len(flags) = 1
    /\ console = <<LogEntry(flags[1])>>

\* the outcomes that are rejections of the call by its own checks
Rejections == {"invalid_amount", "invalid_cost", "invalid_proceeds",
               "no_position", "exceeds_position"}

\* the values the message of the Error thrown for a rejected call
\* interpolates, by what they are: the validation messages print the
\* offending number alone, "no open position" prints amount, token and
\* wallet, "only ... available" prints amount, token, the remaining amount
\* and the position id
ErrorMessage(call, pos) ==
    CASE call.outcome = "invalid_amount" ->
             [wallets |-> {}, tokens |-> {}, amounts |-> {call.amount}]
      [] call.outcome \in {"invalid_cost", "invalid_proceeds"} ->
             [wallets |-> {}, tokens |-> {}, amounts |-> {call.value}]
      [] call.outcome = "no_position" ->
             [wallets |-> {call.walletId}, tokens |-> {call.token},
              amounts |-> {call.amount}]
      [] call.outcome = "exceeds_position" ->
             [wallets |-> {}, tokens |-> {call.token},
              amounts |-> {call.amount, pos[call.position_id].current_amount}]

\* C29 as stated: every rejection of recordBuy or recordSell (invalid
\* amount, invalid cost or proceeds, no open position, sell exceeds
\* position) carries an error message that names the wallet, the token and
\* the amount of the call.
C29_RejectionNamesWalletTokenAmounts ==
    last.outcome \in Rejections =>
        /\ last.walletId \in ErrorMessage(last, positions).wallets
        /\ last.token \in ErrorMessage(last, positions).tokens
        /\ last.amount \in ErrorMessage(last, positions).amounts

Abs(n) == IF n >= 0 THEN n ELSE -n

\* C30 as stated: recordSell uses first-in-first-out accounting: the cost
\* basis a sell returns is the cost of the earliest-bought units not yet
\* sold, as computed by the reference ledger that keeps the individual buy
\* lots and consumes them in order (to within the rounding of the stored
\* figures: half a unit of 1/Scale^2 per unit sold and per lot touched).
C30_CostBasisIsFifo ==
    [][SellOkStep =>
        Abs(last'.cost_basis - FifoCostBasis(lots[last'.position_id], last'.amount))
            <= last'.amount]_vars

\* C31 as stated: amounts are computed as exact decimals, so the totals
\* carry no rounding drift: every position has remaining = entry - exit
\* exactly, and a position whose sells sum to its entry amount has
\* remaining exactly 0 and status CLOSED.
C31_NoRoundingDrift ==
    \A i \in Ids(positions) :
        /\ positions[i].current_amount =
               positions[i].total_entry_amount - positions[i].total_exit_amount
        /\ positions[i].total_exit_amount = positions[i].total_entry_amount
               => /\ positions[i].current_amount = 0
                  /\ positions[i].status = "CLOSED"

\* C32 as stated: in every execution, concurrent calls on one position
\* included, the cumulative entry amount, entry cost, exit amount and exit
\* proceeds of a position never decrease from one committed state to the
\* next.
C32_TotalsNeverDecrease ==
    [][\A i \in Ids(positions) :
        /\ Totals(positions', i).entry_amount >= Totals(positions, i).entry_amount
        /\ Totals(positions', i).entry_cost >= Totals(positions, i).entry_cost
        /\ Totals(positions', i).exit_amount >= Totals(positions, i).exit_amount
        /\ Totals(positions', i).exit_proceeds >= Totals(positions, i).exit_proceeds]_vars

\* C33 as stated: when a recordBuy and a recordSell run concurrently on one
\* OPEN/PARTIAL position, the committed position still has remaining =
\* cumulative entry amount - cumulative exit amount, whichever of the two
\* writes last.
C33_ConcurrentBuySellKeepRemaining ==
    [][\A p \in Procs :
        (/\ txs[p].pc # "idle"
         /\ txs'[p].pc = "idle"
         /\ last'.outcome = "ok"
         /\ last'.position_id \in Ids(positions)
         /\ positions[last'.position_id].current_amount =
                positions[last'.position_id].total_entry_amount
                    - positions[last'.position_id].total_exit_amount)
        => positions'[last'.position_id].current_amount =
               positions'[last'.position_id].total_entry_amount
                   - positions'[last'.position_id].total_exit_amount]_vars

\* C34: no suspicious_pnl flag is ever raised.  A sell that passes its two
\* checks (whether at a profit or at a loss) has no flag of that type among
\* the advisory flags it is due to raise, and no state holds a persisted
\* flag of that type.
C34_NoSuspiciousPnlFlag ==
    [][(SellStep /\ last'.outcome \in {"ok", "hangs"}) =>
        LET due == AdvisoryFlags(positions[last'.position_id], last'.walletId,
                                 last'.token, last'.amount, last'.value,
                                 last'.tradeId)
        IN  /\ \A k \in 1 .. Len(due) : due[k].flag_type # "suspicious_pnl"
            /\ \A k \in 1 .. Len(flags') : flags'[k].flag_type # "suspicious_pnl"]_vars

\* a sell at a loss (proceeds below its cost basis) returned its result
C34_Witness ==
    /\ last.op = "sell"
    /\ last.outcome = "ok"
    /\ last.realized_pnl < 0
    /\ last.value * Scale < last.cost_basis
    /\ \A k \in 1 .. Len(flags) : flags[k].flag_type # "suspicious_pnl"

\* C35 as stated: cost basis is conserved over a lifecycle.  A CLOSED
\* position has cumulative realized P&L = cumulative exit proceeds -
\* cumulative entry cost, and a position still open has realized P&L = exit
\* proceeds - average entry price x exit amount (each to within the
\* rounding of the stored figures: half a storage unit per unit bought).
C35_CostBasisConserved ==
    \A i \in Ids(positions) :
        LET row == positions[i]
        IN  /\ row.status = "CLOSED" =>
                  Abs(row.realized_pnl - (row.total_exit_proceeds - row.total_entry_cost))
                      <= row.total_entry_amount
            /\ row.status # "CLOSED" =>
                  Abs(row.realized_pnl * Scale
                        - (row.total_exit_proceeds * Scale
                             - row.avg_entry_price * row.total_exit_amount))
                      <= row.total_entry_amount * Scale

\* C36 as stated: every recordSell call completes (returns or fails); a
\* sell that changes the status of its position and raises an
\* oversized_position flag does not wait forever on the INSERT of the flag.
C36_SellCompletes == last.op = "sell" => last.outcome # "hangs"

\* the rows already there that the step changed
ChangedIds == {i \in Ids(positions) : positions'[i] # positions[i]}

\* C37: a recordBuy or recordSell for (wallet, token) changes at most one
\* position row, the pair's own OPEN/PARTIAL position, or else creates one
\* row for that pair; the positions of every other wallet or token and
\* every CLOSED row are left as they were.
C37_OnlyOwnActiveRowChanges ==
    [][(BuyStep \/ SellStep) =>
        /\ Len(positions') >= Len(positions)
        /\ Cardinality(ChangedIds) + (Len(positions') - Len(positions)) <= 1
        /\ \A i \in ChangedIds :
              i \in ActiveIdsOf(positions, last'.walletId, last'.token)
        /\ Len(positions') > Len(positions) =>
              /\ positions'[Len(positions')].wallet_id = last'.walletId
              /\ positions'[Len(positions')].token = last'.token]_vars

\* C38: in every reachable state closed_at is set exactly when the status is
\* CLOSED, and then equals last_exit_at; last_exit_at is set exactly when
\* total_exit_amount > 0; and no buy or sell changes the first_entry_at a
\* position got at creation.
C38_TimestampsFollowStatus ==
    [][/\ \A i \in Ids(positions') :
            /\ positions'[i].closed_at # NULL <=> positions'[i].status = "CLOSED"
            /\ positions'[i].status = "CLOSED" =>
                  positions'[i].closed_at = positions'[i].last_exit_at
            /\ positions'[i].last_exit_at # NULL <=>
                  positions'[i].total_exit_amount > 0
       /\ \A i \in Ids(positions) :
            positions'[i].first_entry_at = positions[i].first_entry_at]_vars

\* a sell has left a PARTIAL position, exited and not closed, opened after
\* the pair's earlier position was CLOSED
C38_Witness ==
    /\ last.op = "sell"
    /\ last.outcome = "ok"
    /\ Len(positions) = 2
    /\ last.position_id = 2
    /\ positions[1].status = "CLOSED"
    /\ positions[1].closed_at # NULL
    /\ positions[2].status = "PARTIAL"
    /\ positions[2].last_exit_at # NULL
    /\ positions[2].closed_at = NULL
    /\ positions[2].first_entry_at >= positions[1].closed_at

====
